---- MODULE Spec2Model ----
(***************************************************************************)
(* A model of sync_games.py: one run of main() against the metadata        *)
(* provider (IGDB) and the destination document store, the scoring of the  *)
(* popular section, and the pure record transformer transform_game.        *)
(*                                                                         *)
(* Python values are modelled as follows.                                  *)
(*   - a dict is a function whose DOMAIN is the set of keys present; a key *)
(*     holding JSON null behaves, for dict.get, like an absent key and is  *)
(*     modelled as absent;                                                 *)
(*   - a value that may be None (a .get result) is None == <<>> or         *)
(*     Some(v) == <<v>>;                                                   *)
(*   - a string the code rewrites (a URL) is a sequence of tokens, so that *)
(*     str.replace and "https:" + url act on it;                           *)
(*   - floats are exact rationals: a score is kept as an integer numerator *)
(*     over a denominator common to the whole pool.                        *)
(***************************************************************************)
EXTENDS Integers, Sequences, FiniteSets, TLC

VARIABLES
    \* ---- one run of main() ----
    pc,                 \* position of the run (see the actions)
    gi,                 \* index into GENRE_NAMES of the running genre loop
    genre_name_to_id,   \* main's dict: resolved genre name -> provider id
    total,              \* the last igdb_count result
    featured,           \* main's local `featured`
    popular,            \* main's local `popular`
    genres_out,         \* build_genres_section's ordered dict, as a sequence
                        \* of <<name, list>> in insertion order
    built,              \* which of main's section locals are bound
    store,              \* the destination document homepageData/homepage
    writes,             \* number of doc_ref.set calls that completed
    raised,             \* where the exception that ended the run came from
    catalog,            \* the provider's games, in its default order
    popular_log,        \* the last "[popular] ..." status line printed
    \* ---- locals of build_popular_section ----
    selected_ids,
    ti,                 \* index into selected_ids of the primitives loop
    primitive_by_type,
    max_value_by_type,
    candidate_ids,
    candidate_left,     \* the ids of candidate_list not yet sent in a batch
    game_details,
    score_log,          \* scoring harness: what compute_score did per candidate
    \* ---- transformer harness ----
    t_pc,      \* "off", "in", "once", "twice"
    t_raw,     \* the raw record handed to transform_game
    t_out,     \* transform_game(t_raw)
    t_out2     \* transform_game of t_out re-wrapped as a raw record

mvars == <<pc, gi, genre_name_to_id, total, featured, popular, genres_out,
           built, store, writes, raised, catalog, popular_log>>

pvars == <<selected_ids, ti, primitive_by_type, max_value_by_type,
           candidate_ids, candidate_left, game_details>>

\* main's state, the position aside
mvars_but_pc == <<gi, genre_name_to_id, total, featured, popular, genres_out,
                  built, store, writes, raised, catalog, popular_log>>

tvars == <<t_pc, t_raw, t_out, t_out2>>

vars == <<mvars, pvars, score_log, tvars>>

(***************************************************************************)
(* Generic helpers                                                         *)
(***************************************************************************)
None == <<>>

Some(v) == <<v>>

\* dict.get(key): None when the key is absent
Get(d, k) == IF k \in DOMAIN d THEN Some(d[k]) ELSE None

Range(s) == {s[i] : i \in DOMAIN s}

NoDup(s) == \A i, j \in DOMAIN s : i # j => s[i] # s[j]

\* all sequences over S of length 0..n
SeqsUpTo(S, n) == UNION {[1..k -> S] : k \in 0..n}

(***************************************************************************)
(* transform_game (lines 137-173)                                          *)
(***************************************************************************)
\* str.replace(old, new) on a tokenised string: every occurrence is replaced
str_replace(url, old, new) ==
    [i \in DOMAIN url |-> IF url[i] = old THEN new ELSE url[i]]

\* "https:" + url.replace("t_thumb", "t_cover_big"); the caller has checked
\* that url is truthy, so the `if not url` branch is the caller's guard
format_cover_url(url) ==
    <<"https:">> \o str_replace(url, "t_thumb", "t_cover_big")

format_screenshot_url(url) ==
    <<"https:">> \o str_replace(url, "t_thumb", "t_screenshot_med")

\* truthiness of s.get("url") / item.get("name"): present and not empty
TruthyKey(d, k) == k \in DOMAIN d /\ d[k] # <<>>

\* the seven keys that are always set, each to raw_game.get(...)
BaseKeys == {"id", "name", "summary", "storyline", "total_rating",
             "first_release_date"}

transformed_base(raw_game) ==
    [k \in BaseKeys \cup {"igdb_url"} |->
        IF k = "igdb_url" THEN Get(raw_game, "url") ELSE Get(raw_game, k)]

\* lines 158-160
cover_part(raw_game) ==
    IF "cover" \in DOMAIN raw_game /\ TruthyKey(raw_game.cover, "url")
    THEN [k \in {"cover_url"} |-> format_cover_url(raw_game.cover.url)]
    ELSE <<>>

\* lines 162-164
screenshots_part(raw_game) ==
    IF "screenshots" \in DOMAIN raw_game /\ raw_game.screenshots # <<>>
    THEN [k \in {"screenshots"} |->
            LET kept == SelectSeq(raw_game.screenshots,
                                  LAMBDA s : TruthyKey(s, "url"))
            IN  [i \in DOMAIN kept |-> format_screenshot_url(kept[i].url)]]
    ELSE <<>>

ClassFields == {"player_perspectives", "game_engines", "game_modes", "genres"}

\* An entry of a classification list is a dict (isdict) that may carry a
\* name, or a value that is no dict (IGDB returns bare integer ids for
\* unexpanded references): item.get then raises AttributeError.
ItemRaises(item) == ~item.isdict

\* line 169: the comprehension raises as soon as one item raises, and then
\* the assignment to transformed[field] never happens (lines 170-171)
class_names(items) ==
    IF \E i \in DOMAIN items : ItemRaises(items[i])
    THEN None
    ELSE Some(LET kept == SelectSeq(items, LAMBDA it : TruthyKey(it, "name"))
              IN  [i \in DOMAIN kept |-> kept[i].name])

\* lines 166-171
class_part(raw_game) ==
    LET present == {f \in ClassFields :
                      f \in DOMAIN raw_game /\ class_names(raw_game[f]) # None}
    IN  [f \in present |-> class_names(raw_game[f])[1]]

transform_game(raw_game) ==
    transformed_base(raw_game) @@ cover_part(raw_game)
        @@ screenshots_part(raw_game) @@ class_part(raw_game)

(***************************************************************************)
(* Configuration (lines 22-47). The section sizes, the batch size and the  *)
(* number of genres are scaled down; the thresholds and the query limits   *)
(* keep the source's values.                                               *)
(***************************************************************************)
FEATURED_COUNT == 1

POPULAR_COUNT == 2

GENRE_COUNT == 1

BATCH == 2

MaxGenres == 2

GENRE_NAMES_ALL ==
    << "Point-and-click", "Fighting", "Shooter", "Music", "Platform", "Puzzle",
       "Racing", "Real Time Strategy (RTS)", "Role-playing (RPG)", "Simulator",
       "Sport", "Strategy", "Turn-based strategy (TBS)", "Tactical",
       "Hack and slash/Beat 'em up", "Quiz/Trivia", "Adventure", "Indie",
       "Arcade", "Visual Novel", "Card & Board Game", "MOBA" >>

\* the first MaxGenres configured names, in the configured order
GENRE_NAMES == SubSeq(GENRE_NAMES_ALL, 1, MaxGenres)

POP_PRIMITIVE_LIMIT == 500

FALLBACK_POOL_LIMIT == 500

FALLBACK_SECTION_LIMIT == 300

RECENT_RELEASE_DAYS == 180

MAX_GAME_AGE_DAYS == 1095

RECENT_UPDATE_DAYS == 45

SecondsPerDay == 86400

\* datetime.utcnow() as epoch seconds; one value for the whole run (the
\* microseconds between two calls are not modelled)
Now == 1800000000

(***************************************************************************)
(* Sequence helpers                                                        *)
(***************************************************************************)
Take(s, n) == SubSeq(s, 1, IF Len(s) < n THEN Len(s) ELSE n)

\* sorted(s, key=..., reverse=True), with keys[i] the key of s[i]: stable and
\* descending, so s[i] precedes s[j] iff its key is larger, or equal with i < j
sorted_reverse(s, keys) ==
    LET before(i, j) == keys[i] > keys[j] \/ (keys[i] = keys[j] /\ i < j)
        rank(i) == 1 + Cardinality({j \in DOMAIN s : before(j, i)})
    IN  [p \in DOMAIN s |-> s[CHOOSE i \in DOMAIN s : rank(i) = p]]

\* max(values, default=d)
MaxOfSet(S, d) ==
    IF S = {} THEN d ELSE CHOOSE y \in S : \A z \in S : z <= y

RECURSIVE Product(_)
Product(s) == IF s = <<>> THEN 1 ELSE Head(s) * Product(Tail(s))

RECURSIVE Sum(_)
Sum(s) == IF s = <<>> THEN 0 ELSE Head(s) + Sum(Tail(s))

(***************************************************************************)
(* Scoring (lines 244-256, 292-354)                                        *)
(***************************************************************************)
\* g.get(k) or 0
OrZero(g, k) == IF k \in DOMAIN g THEN g[k] ELSE 0

\* line 250: the rows that carry a game_id, the last row of a game winning
primitive_dict(rows) ==
    LET with_id == {i \in DOMAIN rows : "game_id" \in DOMAIN rows[i]}
        ids == {rows[i].game_id : i \in with_id}
        last(gid) == CHOOSE i \in with_id :
                        /\ rows[i].game_id = gid
                        /\ \A j \in with_id : rows[j].game_id = gid => j <= i
    IN  [gid \in ids |-> OrZero(rows[last(gid)], "value")]

\* line 251: max(..., default=1)
recorded_min(rows) ==
    IF rows = <<>> THEN 1
    ELSE CHOOSE y \in {OrZero(rows[i], "value") : i \in DOMAIN rows} :
            \A i \in DOMAIN rows : y <= OrZero(rows[i], "value")

recorded_max(rows) ==
    MaxOfSet({OrZero(rows[i], "value") : i \in DOMAIN rows}, 1)

\* lines 293-295: max(...) or floor over the fetched details (not empty here)
pool_max_plus_one(details, k, floor) ==
    MaxOfSet({OrZero(details[i], k) : i \in DOMAIN details}, 0) + 1

pool_max(details, k, floor) ==
    LET m == MaxOfSet({OrZero(details[i], k) : i \in DOMAIN details}, 0)
    IN  IF m = 0 THEN floor ELSE m

max_hypes_in_pool(details) == pool_max(details, "hypes", 1)

max_follows_in_pool(details) == pool_max(details, "follows", 1)

max_rating(details) == pool_max(details, "total_rating", 100)

\* line 320
raw_val(pbt, tid, gid) ==
    IF tid \in DOMAIN pbt /\ gid \in DOMAIN pbt[tid] THEN pbt[tid][gid] ELSE 0

\* line 321
max_val(mvt, tid) ==
    LET m == IF tid \in DOMAIN mvt THEN mvt[tid] ELSE 1
    IN  IF m = 0 THEN 1 ELSE m

\* The normalized sub-scores of lines 322-327, each as <<numerator,
\* denominator>>
norm_primitive(pbt, mvt, tid, g) == <<raw_val(pbt, tid, g.id), max_val(mvt, tid)>>

norm_hypes(g, details) == <<OrZero(g, "hypes"), max_hypes_in_pool(details)>>

norm_follows(g, details) == <<OrZero(g, "follows"), max_follows_in_pool(details)>>

norm_rating(g, details) == <<OrZero(g, "total_rating"), max_rating(details)>>

\* timedelta.days: whole days, rounded down
days_since(ts) == (Now - ts) \div SecondsPerDay

\* lines 330-340, in hundredths. `if release_date:` is false for an absent
\* timestamp and for the timestamp 0
release_adjustment(g) ==
    IF "first_release_date" \in DOMAIN g /\ g.first_release_date # 0
    THEN LET d == days_since(g.first_release_date)
         IN  IF d <= RECENT_RELEASE_DAYS THEN 25
             ELSE IF d > MAX_GAME_AGE_DAYS THEN -25 ELSE 0
    ELSE 0

\* lines 342-348, in hundredths
update_adjustment(g) ==
    IF "updated_at" \in DOMAIN g /\ g.updated_at # 0
    THEN IF days_since(g.updated_at) <= RECENT_UPDATE_DAYS THEN 15 ELSE 0
    ELSE 0

\* The denominator common to every term of every candidate's score is
\* 100 * ScoreBase: per_primitive_weight = 60/(100*n), the weights 15/100,
\* 10/100, 15/100, and the maxima the terms are divided by.
ScoreBase(sel, mvt, details) ==
    Len(sel) * Product([i \in DOMAIN sel |-> max_val(mvt, sel[i])])
      * max_hypes_in_pool(details) * max_follows_in_pool(details)
      * max_rating(details)

\* n/d of B, for a sub-score <<n, d>> whose d divides B
Scaled(nd, B) == nd[1] * (B \div nd[2])

\* compute_score(g) * 100 * ScoreBase (lines 314-350)
compute_score(g, sel, pbt, mvt, details) ==
    LET B == ScoreBase(sel, mvt, details)
    IN  Sum([i \in DOMAIN sel |->
              60 * Scaled(norm_primitive(pbt, mvt, sel[i], g), B \div Len(sel))])
        + 15 * Scaled(norm_hypes(g, details), B)
        + 10 * Scaled(norm_follows(g, details), B)
        + 15 * Scaled(norm_rating(g, details), B)
        + (release_adjustment(g) + update_adjustment(g)) * B

\* lines 353-354
score_and_pick_no_limit(sel, pbt, mvt, details) ==
    LET keys == [i \in DOMAIN details |->
                    compute_score(details[i], sel, pbt, mvt, details)]
        scored == sorted_reverse(details, keys)
    IN  [i \in DOMAIN scored |-> transform_game(scored[i])]

score_and_pick(sel, pbt, mvt, details) ==
    LET keys == [i \in DOMAIN details |->
                    compute_score(details[i], sel, pbt, mvt, details)]
        scored == Take(sorted_reverse(details, keys), POPULAR_COUNT)
    IN  [i \in DOMAIN scored |-> transform_game(scored[i])]

\* lines 368-370
fallback_key_hypes_only(g) == OrZero(g, "hypes")

fallback_key(g) == OrZero(g, "hypes") + OrZero(g, "follows")

fallback_pick(raw_games) ==
    LET keys == [i \in DOMAIN raw_games |-> fallback_key(raw_games[i])]
        top_games == Take(sorted_reverse(raw_games, keys), POPULAR_COUNT)
    IN  [i \in DOMAIN top_games |-> transform_game(top_games[i])]

(***************************************************************************)
(* The metadata provider (an external collaborator). Its games are the     *)
(* sequence `catalog`, in its default order; a game's id is its position.  *)
(* A request either raises (igdb_post re-raises the HTTP error, line 80)   *)
(* or is answered from the catalog, with the fields the query names.       *)
(***************************************************************************)
MaxGames == 3

ScenarioGame1 ==
    [hypes |-> 100, follows |-> 0, total_rating |-> 90,
     first_release_date |-> Now - 3600]

ScenarioGame2 ==
    [hypes |-> 0, follows |-> 500, total_rating |-> 40,
     first_release_date |-> Now - 5 * 365 * SecondsPerDay]

\* the i-th game of the provider, its id aside
MasterGame(i) ==
    CASE i = 1 -> ScenarioGame1
      [] i = 2 -> ScenarioGame2
      [] OTHER -> [name |-> "G", total_rating |-> 60]

\* the provider holds the first n of these games, n = 0..MaxGames
Catalogs ==
    { [i \in 1..n |-> [k \in {"id"} |-> i] @@ MasterGame(i)] : n \in 0..MaxGames }

ScenarioCatalog ==
    << [k \in {"id"} |-> 1] @@ ScenarioGame1, [k \in {"id"} |-> 2] @@ ScenarioGame2 >>

\* the `fields` clause of lines 96-97 and 111-112
DetailFields ==
    {"id", "name", "cover", "total_rating", "storyline", "first_release_date",
     "summary", "genres", "player_perspectives", "game_engines", "game_modes",
     "screenshots", "url"}

\* line 266
FallbackPoolFields ==
    {"id", "hypes", "follows", "total_rating", "first_release_date",
     "updated_at", "cover", "url"}

\* lines 361-363
FallbackSectionFields == DetailFields \cup {"follows", "hypes", "updated_at"}

Project(g, fields) == [k \in (DOMAIN g) \cap fields |-> g[k]]

ProjectAll(games, fields) == [i \in DOMAIN games |-> Project(games[i], fields)]

\* `sort hypes desc`: games without hypes last, ties in default order
SortHypesDesc(games) ==
    sorted_reverse(games,
        [i \in DOMAIN games |->
            IF "hypes" \in DOMAIN games[i] THEN games[i].hypes ELSE -1])

\* the games matching `(hypes > 25 | total_rating > 50)` (line 180)
FeaturedUniverse ==
    SelectSeq(catalog, LAMBDA g : OrZero(g, "hypes") > 25
                                    \/ OrZero(g, "total_rating") > 50)

\* the games matching `total_rating > 50` (line 199); which of them carry
\* the genre is the provider's answer to the count query
RatedUniverse == SelectSeq(catalog, LAMBDA g : OrZero(g, "total_rating") > 50)

\* `limit`/`offset` on a list of matches
Page(matches, limit, offset) ==
    SubSeq(matches, offset + 1,
           IF offset + limit < Len(matches) THEN offset + limit ELSE Len(matches))

\* igdb_fetch_games_by_ids: `where id = (...)`, `limit len(game_ids)`
GamesByIds(ids) ==
    Take(ProjectAll(SelectSeq(catalog, LAMBDA g : g.id \in Range(ids)),
                    DetailFields),
         Len(ids))

\* the pool query of lines 265-270
FallbackPoolResponse ==
    Take(SortHypesDesc(ProjectAll(catalog, FallbackPoolFields)),
         FALLBACK_POOL_LIMIT)

\* the query of lines 360-367
FallbackSectionResponse ==
    Take(SortHypesDesc(ProjectAll(catalog, FallbackSectionFields)),
         FALLBACK_SECTION_LIMIT)

\* the id the provider gives the i-th configured genre
GenreId(i) == 10 + i

\* ---- popularity types and primitives ----
MaxTypes == 2

\* a type's name as the words it is made of
PopTypes ==
    << [id |-> 2, name |-> <<"Want", "to", "Play">>],
       [id |-> 5, name |-> <<"24hr", "Peak", "Players">>],
       [id |-> 7],
       [id |-> 9, name |-> <<"Visits">>] >>

\* the provider lists at most MaxTypes of its types, in its own order
PopTypeLists ==
    { SelectSeq(PopTypes, LAMBDA t : t.id \in ids) :
        ids \in {S \in SUBSET {2, 5, 7, 9} : Cardinality(S) <= MaxTypes} }

\* line 235
desired_keywords ==
    {"peak", "player", "player count", "page", "view", "want", "positive", "reviews"}

\* the keywords that are substrings of a word once lowercased
KeywordsIn(word) ==
    CASE word = "Peak" -> {"peak"}
      [] word = "Players" -> {"player"}
      [] word = "Want" -> {"want"}
      [] OTHER -> {}

\* line 236: any(k in (t.get("name") or "").lower() for k in desired_keywords)
type_selected(t) ==
    /\ "name" \in DOMAIN t
    /\ \E i \in DOMAIN t.name : KeywordsIn(t.name[i]) \cap desired_keywords # {}

\* the value the provider holds for a game under a type: the two types rank
\* the games in opposite orders
PrimValueOf(tid, gid) == IF tid = 5 THEN gid ELSE MaxGames + 1 - gid

\* the rows of one type: at most one row per game (ids the catalog may no
\* longer hold included), sorted by value descending, at most `limit` rows
PrimResponses(tid) ==
    { LET rows == [i \in 1..Cardinality(S) |->
                     LET gid == CHOOSE g \in S :
                                  Cardinality({h \in S :
                                     PrimValueOf(tid, h) > PrimValueOf(tid, g)}) = i - 1
                     IN  [game_id |-> gid, value |-> PrimValueOf(tid, gid)]]
      IN  Take(rows, POP_PRIMITIVE_LIMIT) : S \in SUBSET (1..MaxGames) }

(***************************************************************************)
(* One run of main (lines 383-413)                                         *)
(***************************************************************************)
\* the document stored by the previous run
OldDoc ==
    [createdAt |-> "previous", featured |-> <<>>, popular |-> <<>>, genres |-> <<>>]

\* d[k] = v on an insertion-ordered dict kept as a sequence of <<key, value>>
DictSet(d, k, v) ==
    IF \E i \in DOMAIN d : d[i][1] = k
    THEN [i \in DOMAIN d |-> IF d[i][1] = k THEN <<k, v>> ELSE d[i]]
    ELSE Append(d, <<k, v>>)

DictKeys(d) == [i \in DOMAIN d |-> d[i][1]]

TransformAll(raw) == [i \in DOMAIN raw |-> transform_game(raw[i])]

PopularIdle ==
    /\ selected_ids' = <<>>
    /\ ti' = 1
    /\ primitive_by_type' = <<>>
    /\ max_value_by_type' = <<>>
    /\ candidate_ids' = {}
    /\ candidate_left' = {}
    /\ game_details' = <<>>

Init ==
    /\ pc = "resolve"
    /\ gi = 1
    /\ genre_name_to_id = <<>>
    /\ total = 0
    /\ featured = <<>>
    /\ popular = <<>>
    /\ genres_out = <<>>
    /\ built = {}
    /\ store = OldDoc
    /\ writes = 0
    /\ raised = "none"
    /\ catalog \in Catalogs
    /\ popular_log = "none"
    /\ selected_ids = <<>>
    /\ ti = 1
    /\ primitive_by_type = <<>>
    /\ max_value_by_type = <<>>
    /\ candidate_ids = {}
    /\ candidate_left = {}
    /\ game_details = <<>>
    /\ score_log = <<>>
    /\ t_pc = "off"
    /\ t_raw = <<>>
    /\ t_out = <<>>
    /\ t_out2 = <<>>

\* an exception nothing catches leaves main: the run ends where it is
Abort(origin) ==
    /\ pc' = "aborted"
    /\ raised' = origin

\* the order of main's calls (lines 401-412)
next_after_upload_early(section) ==
    CASE section = "resolve" -> "featured_count"
      [] section = "featured" -> "upload"
      [] section = "popular" -> "genres"
      [] section = "genres" -> "upload"

next_after(section) ==
    CASE section = "resolve" -> "featured_count"
      [] section = "featured" -> "pop_types"
      [] section = "popular" -> "genres"
      [] section = "genres" -> "upload"

\* lines 389-398: one iteration of the resolution loop; a lookup that raises
\* is caught (line 397) and leaves the name unresolved, like one that finds
\* nothing
ResolveGenre ==
    /\ pc = "resolve"
    /\ \E outcome \in {"found", "not found", "raise"} :
         genre_name_to_id' =
            IF outcome = "found"
            THEN genre_name_to_id @@ (GENRE_NAMES[gi] :> GenreId(gi))
            ELSE genre_name_to_id
    /\ IF gi < Len(GENRE_NAMES)
       THEN gi' = gi + 1 /\ pc' = "resolve"
       ELSE gi' = 1 /\ pc' = next_after("resolve")
    /\ UNCHANGED <<total, featured, popular, genres_out, built, store, writes,
                   raised, catalog, popular_log, pvars, score_log, tvars>>

\* lines 180-184: the count query of build_featured_section
FeaturedCount ==
    /\ pc = "featured_count"
    /\ \/ /\ Abort("featured count")
          /\ UNCHANGED <<total, featured, built>>
       \/ /\ total' = Len(FeaturedUniverse)
          /\ raised' = raised
          /\ IF total' <= 0
             THEN /\ featured' = <<>>
                  /\ built' = built \cup {"featured"}
                  /\ pc' = next_after("featured")
             ELSE /\ pc' = "featured_fetch"
                  /\ UNCHANGED <<featured, built>>
    /\ UNCHANGED <<gi, genre_name_to_id, popular, genres_out, store, writes,
                   catalog, popular_log, pvars, score_log, tvars>>

\* random.randint(0, max(0, total - limit)) (lines 185, 205)
Offsets(tot, limit) == 0..(IF tot - limit > 0 THEN tot - limit ELSE 0)

\* lines 185-188
FeaturedFetch ==
    /\ pc = "featured_fetch"
    /\ \/ /\ Abort("featured fetch")
          /\ UNCHANGED <<featured, built>>
       \/ \E offset \in Offsets(total, FEATURED_COUNT) :
            /\ featured' = TransformAll(ProjectAll(
                               Page(FeaturedUniverse, FEATURED_COUNT, offset),
                               DetailFields))
            /\ built' = built \cup {"featured"}
            /\ pc' = next_after("featured")
            /\ raised' = raised
    /\ UNCHANGED <<gi, genre_name_to_id, total, popular, genres_out, store,
                   writes, catalog, popular_log, pvars, score_log, tvars>>

\* lines 227-242: the popularity types and the choice of path
PopularTypes ==
    /\ pc = "pop_types"
    /\ \/ /\ pc' = "fallback_section"
          /\ selected_ids' = <<>>
          /\ popular_log' = "failed to fetch popularity_types"
       \/ \E pop_types \in PopTypeLists :
            LET selected_types == SelectSeq(pop_types, type_selected)
            IN  /\ selected_ids' = [i \in DOMAIN selected_types |-> selected_types[i].id]
                /\ IF selected_types = <<>>
                   THEN /\ pc' = "fallback_section"
                        /\ popular_log' = "no popularity types matched keywords"
                   ELSE /\ pc' = "pop_primitives"
                        /\ popular_log' = "selected popularity types"
    /\ UNCHANGED <<gi, genre_name_to_id, total, featured, popular, genres_out,
                   built, store, writes, raised, catalog, ti, primitive_by_type,
                   max_value_by_type, candidate_ids, candidate_left,
                   game_details, score_log, tvars>>

\* lines 247-256: one iteration of the primitives loop
PopularPrimitives ==
    /\ pc = "pop_primitives"
    /\ LET tid == selected_ids[ti]
       IN  \/ /\ primitive_by_type' = primitive_by_type @@ (tid :> <<>>)
              /\ max_value_by_type' = max_value_by_type @@ (tid :> 1)
           \/ \E rows \in PrimResponses(tid) :
                /\ primitive_by_type' = primitive_by_type @@ (tid :> primitive_dict(rows))
                /\ max_value_by_type' = max_value_by_type @@ (tid :> recorded_max(rows))
    /\ IF ti < Len(selected_ids)
       THEN ti' = ti + 1 /\ pc' = "pop_primitives"
       ELSE ti' = 1 /\ pc' = "pop_pool"
    /\ UNCHANGED <<mvars_but_pc, selected_ids, candidate_ids, candidate_left,
                   game_details, score_log, tvars>>

\* lines 258-283: the candidate ids and the pool query. A pool query that
\* raises, or answers nothing (max() of nothing raises inside the try), adds
\* no id.
PopularPool ==
    /\ pc = "pop_pool"
    /\ \E failed \in BOOLEAN :
         LET from_types == UNION {DOMAIN primitive_by_type[t] : t \in DOMAIN primitive_by_type}
             raw_fallback == IF failed THEN <<>> ELSE FallbackPoolResponse
             ids == from_types \cup {raw_fallback[i].id : i \in DOMAIN raw_fallback}
         IN  /\ candidate_ids' = ids
             /\ candidate_left' = ids
             /\ IF ids = {}
                THEN /\ pc' = "fallback_section"
                     /\ popular_log' = "no candidates found"
                ELSE /\ pc' = "pop_details"
                     /\ popular_log' = popular_log
    /\ UNCHANGED <<gi, genre_name_to_id, total, featured, popular, genres_out,
                   built, store, writes, raised, catalog, selected_ids, ti,
                   primitive_by_type, max_value_by_type, game_details,
                   score_log, tvars>>

\* the next chunk of chunked(list(candidate_ids), BATCH): list() lists the set
\* in the set's own order, so the chunk is any BATCH of the ids left (all of
\* them when fewer are left); the provider answers in its own order
NextChunks ==
    {c \in SUBSET candidate_left :
        Cardinality(c) = IF Cardinality(candidate_left) < BATCH
                         THEN Cardinality(candidate_left) ELSE BATCH}

\* the ids of a chunk, as the list the request is built from
RECURSIVE SetToSeq(_)
SetToSeq(S) ==
    IF S = {} THEN <<>>
    ELSE LET m == CHOOSE x \in S : \A y \in S : x <= y
         IN  <<m>> \o SetToSeq(S \ {m})

\* lines 286-290: one batch of the details loop; a batch that raises is
\* skipped
PopularDetails ==
    /\ pc = "pop_details"
    /\ \E chunk \in NextChunks :
         /\ \/ game_details' = game_details
            \/ game_details' = game_details \o GamesByIds(SetToSeq(chunk))
         /\ candidate_left' = candidate_left \ chunk
         /\ pc' = IF candidate_left' = {} THEN "pop_score" ELSE "pop_details"
    /\ UNCHANGED <<mvars_but_pc, selected_ids, ti, primitive_by_type,
                   max_value_by_type, candidate_ids, score_log, tvars>>

\* lines 293-354: max() of an empty game_details raises ValueError, which
\* nothing catches; otherwise the candidates are scored and the top taken
PopularScore ==
    /\ pc = "pop_score"
    /\ IF game_details = <<>>
       THEN /\ Abort("max() of empty game_details")
            /\ UNCHANGED <<popular, built>>
       ELSE /\ popular' = score_and_pick(selected_ids, primitive_by_type,
                                         max_value_by_type, game_details)
            /\ built' = built \cup {"popular"}
            /\ pc' = next_after("popular")
            /\ raised' = raised
    /\ PopularIdle
    /\ UNCHANGED <<gi, genre_name_to_id, total, featured, genres_out, store,
                   writes, catalog, popular_log, score_log, tvars>>

\* lines 357-370: _fallback_popular_section
FallbackSection ==
    /\ pc = "fallback_section"
    /\ \/ /\ Abort("fallback section fetch")
          /\ UNCHANGED <<popular, built>>
       \/ /\ popular' = fallback_pick(FallbackSectionResponse)
          /\ built' = built \cup {"popular"}
          /\ pc' = next_after("popular")
          /\ raised' = raised
    /\ PopularIdle
    /\ UNCHANGED <<gi, genre_name_to_id, total, featured, genres_out, store,
                   writes, catalog, popular_log, score_log, tvars>>

\* lines 194-198: the branch of a genre without a provider id
genres_skip_missing_id(d, name) == d

genres_on_missing_id(d, name) == DictSet(d, name, <<>>)

\* the loop of build_genres_section moves on, or returns to main (line 403)
GenresAdvance ==
    IF gi < Len(GENRE_NAMES)
    THEN /\ gi' = gi + 1
         /\ pc' = "genres"
         /\ built' = built
    ELSE /\ gi' = 1
         /\ pc' = next_after("genres")
         /\ built' = built \cup {"genres"}

\* lines 193-204: one iteration up to the count query
GenresCount ==
    /\ pc = "genres"
    /\ LET name == GENRE_NAMES[gi]
       IN  IF name \notin DOMAIN genre_name_to_id \/ genre_name_to_id[name] = 0
           THEN /\ genres_out' = genres_on_missing_id(genres_out, name)
                /\ GenresAdvance
                /\ UNCHANGED <<total, raised>>
           ELSE \/ /\ Abort("genre count")
                   /\ UNCHANGED <<gi, total, genres_out, built>>
                \/ \E t \in 0..Len(RatedUniverse) :
                     /\ total' = t
                     /\ raised' = raised
                     /\ IF t <= 0
                        THEN /\ genres_out' = DictSet(genres_out, name, <<>>)
                             /\ GenresAdvance
                        ELSE /\ pc' = "genres_fetch"
                             /\ UNCHANGED <<gi, genres_out, built>>
    /\ UNCHANGED <<genre_name_to_id, featured, popular, store, writes, catalog,
                   popular_log, pvars, score_log, tvars>>

\* lines 205-208
GenresFetch ==
    /\ pc = "genres_fetch"
    /\ \/ /\ Abort("genre fetch")
          /\ UNCHANGED <<gi, genres_out, built>>
       \/ \E offset \in Offsets(total, GENRE_COUNT) :
            /\ genres_out' =
                 DictSet(genres_out, GENRE_NAMES[gi],
                         TransformAll(ProjectAll(
                             Page(Take(RatedUniverse, total), GENRE_COUNT, offset),
                             DetailFields)))
            /\ raised' = raised
            /\ GenresAdvance
    /\ UNCHANGED <<genre_name_to_id, total, featured, popular, store, writes,
                   catalog, popular_log, pvars, score_log, tvars>>

\* lines 405-410
payload ==
    [createdAt |-> "now", featured |-> featured, popular |-> popular,
     genres |-> genres_out]

\* lines 376-378, 412: the one write of the run
Upload ==
    /\ pc = "upload"
    /\ \/ /\ Abort("upload")
          /\ UNCHANGED <<store, writes>>
       \/ /\ store' = payload
          /\ writes' = writes + 1
          /\ pc' = "done"
          /\ raised' = raised
    /\ UNCHANGED <<gi, genre_name_to_id, total, featured, popular, genres_out,
                   built, catalog, popular_log, pvars, score_log, tvars>>

Next ==
    \/ ResolveGenre
    \/ FeaturedCount
    \/ FeaturedFetch
    \/ PopularTypes
    \/ PopularPrimitives
    \/ PopularPool
    \/ PopularDetails
    \/ PopularScore
    \/ FallbackSection
    \/ GenresCount
    \/ GenresFetch
    \/ Upload

Spec == Init /\ [][Next]_vars

(***************************************************************************)
(* Claims about the run of main                                            *)
(***************************************************************************)
AllSections == {"featured", "popular", "genres"}

\* C1: the destination document is written at most once in a run, and only
\* after the featured, popular and genre sections have all been built, with
\* the payload made of them; a run that an uncaught error ends has written
\* nothing, so the stored document is still the previous one.
C1_SingleWriteAfterAllSections ==
    /\ writes <= 1
    /\ writes = 0 => store = OldDoc
    /\ writes = 1 => /\ pc = "done"
                     /\ built = AllSections
                     /\ store = payload
    /\ pc = "aborted" => writes = 0 /\ store = OldDoc

\* a run that built two sections and was ended by a failing genre fetch
C1_Witness ==
    /\ pc = "aborted"
    /\ raised = "genre fetch"
    /\ built = {"featured", "popular"}
    /\ popular # <<>>
    /\ store = OldDoc

\* the requests whose failure the code does not catch
HardRequests ==
    {"featured count", "featured fetch", "fallback section fetch",
     "genre count", "genre fetch", "upload"}

\* C2: soft failures never escalate to fatal: whatever genre lookups,
\* primitive fetches and detail batches fail, a run is ended only by the
\* failure of some other request, so that with all other requests succeeding
\* build_popular_section returns and main writes the document.
C2_SoftFailuresNeverFatal == pc = "aborted" => raised \in HardRequests

PopularIds == [i \in DOMAIN popular |-> popular[i].id]

\* C3: the popular section, on the multi-signal path and on the degraded
\* path, has at most POPULAR_COUNT entries and no two entries with the same
\* game identifier.
C3_PopularBoundedNoDuplicates ==
    /\ Len(popular) <= POPULAR_COUNT
    /\ NoDup(PopularIds)

\* the multi-signal path returned a full section out of a larger pool
C3_Witness ==
    /\ "popular" \in built
    /\ popular_log = "selected popularity types"
    /\ Len(popular) = POPULAR_COUNT
    /\ Len(catalog) > POPULAR_COUNT

\* the genre the loop of build_genres_section handled last
LastGenre == IF pc = "genres" \/ pc = "genres_fetch" THEN gi - 1 ELSE Len(GENRE_NAMES)

Resolved(name) == name \in DOMAIN genre_name_to_id /\ genre_name_to_id[name] # 0

\* C4: in every document main writes the keys of the genres mapping are the
\* configured GENRE_NAMES in the configured order; a genre without a
\* provider id and a genre whose count query returned 0 are there with an
\* empty list, and neither ends the run (while the section is built, the keys
\* are the names handled so far).
C4_GenreKeysAreConfiguredNames ==
    /\ writes = 1 =>
         /\ DictKeys(store.genres) = GENRE_NAMES
         /\ \A i \in DOMAIN GENRE_NAMES :
              ~Resolved(GENRE_NAMES[i]) => store.genres[i][2] = <<>>
    /\ pc \in {"genres", "genres_fetch", "upload"} =>
         /\ DictKeys(genres_out) = SubSeq(GENRE_NAMES, 1, LastGenre)
         /\ \A i \in 1..LastGenre :
              ~Resolved(GENRE_NAMES[i]) => genres_out[i][2] = <<>>
         /\ (pc # "genres_fetch" /\ LastGenre >= 1
               /\ Resolved(GENRE_NAMES[LastGenre]) /\ total = 0)
              => genres_out[LastGenre][2] = <<>>

\* a written document with a genre that has no id and a resolved genre whose
\* count was 0
C4_Witness ==
    /\ writes = 1
    /\ \E i, j \in DOMAIN GENRE_NAMES :
         /\ ~Resolved(GENRE_NAMES[i])
         /\ store.genres[i] = <<GENRE_NAMES[i], <<>> >>
         /\ Resolved(GENRE_NAMES[j])
         /\ store.genres[j] = <<GENRE_NAMES[j], <<>> >>

PositionOf(id) == CHOOSE i \in DOMAIN popular : popular[i].id = Some(id)

ScenarioNoTypeSelected ==
    /\ catalog = ScenarioCatalog
    /\ "popular" \in built
    /\ popular_log = "no popularity types matched keywords"

\* C7 as stated: with the pool of game 1 (hype 100, follows 0, rating 90,
\* released today) and game 2 (hype 0, follows 500, rating 40, released 5
\* years ago) and no popularity type selected, build_popular_section ranks
\* game 1 ahead of game 2.
C7_Game1AheadOfGame2 ==
    ScenarioNoTypeSelected =>
        /\ Range(PopularIds) = {Some(1), Some(2)}
        /\ PositionOf(1) < PositionOf(2)

\* C7 as amended: with that pool and no popularity type selected,
\* build_popular_section returns the degraded section, ranked by hype +
\* follows alone, and game 2 (500) is ahead of game 1 (100).
C7_DegradedPathRanksGame2First ==
    ScenarioNoTypeSelected =>
        /\ Range(PopularIds) = {Some(1), Some(2)}
        /\ PositionOf(2) < PositionOf(1)

C7_Witness == ScenarioNoTypeSelected /\ Len(popular) = 2

(***************************************************************************)
(* Scoring harness: the part of build_popular_section from line 292 on,    *)
(* applied to a pool drawn from bounded sets                               *)
(***************************************************************************)
MaxPool == 2

SignalValues == {0, 1, 3}

OptField(k, values) == {<<>>} \cup {[x \in {k} |-> v] : v \in values}

\* pools that vary hypes, follows and rating
SignalPools ==
    UNION { { [i \in 1..n |-> [k \in {"id"} |-> i] @@ f[i]] :
                f \in [1..n -> { h @@ fo @@ r :
                                   h \in OptField("hypes", SignalValues),
                                   fo \in OptField("follows", {2}),
                                   r \in OptField("total_rating", SignalValues) }] } :
            n \in 1..MaxPool }

\* what one primitives request may give: at most one row per pool game (-1:
\* no row), with or without a row that carries no game_id
RowChoices ==
    [1..MaxPool -> {-1} \cup SignalValues]

RowsFrom(choice, extra) ==
    LET present == SetToSeq({g \in 1..MaxPool : choice[g] >= 0})
    IN  [i \in DOMAIN present |-> [game_id |-> present[i], value |-> choice[present[i]]]]
          \o extra

PrimRowsInputs ==
    { [ok |-> TRUE, rows |-> RowsFrom(c, e)] :
        c \in RowChoices, e \in {<<>>, <<[value |-> 4]>>} }

PrimRaises == [ok |-> FALSE, rows |-> <<>>]

PlainPool == [i \in 1..MaxPool |-> [id |-> i, total_rating |-> 50]]

ReleaseInputs ==
    {<<>>} \cup
    { [first_release_date |-> ts] :
        ts \in { 0, Now, Now + 3 * SecondsPerDay,
                 Now - 180 * SecondsPerDay,
                 Now - 180 * SecondsPerDay - (SecondsPerDay - 1),
                 Now - 181 * SecondsPerDay,
                 Now - 1095 * SecondsPerDay - (SecondsPerDay - 1),
                 Now - 1096 * SecondsPerDay,
                 Now - 2000 * SecondsPerDay } }

UpdateInputs ==
    {<<>>} \cup
    { [updated_at |-> ts] :
        ts \in { 0, Now - 10,
                 Now - 45 * SecondsPerDay - (SecondsPerDay - 1),
                 Now - 46 * SecondsPerDay } }

\* each input: the selected types, what each primitives request gave (rows,
\* or ok = FALSE when it raised), and the details fetched
ScoreInputs ==
    { [sel |-> <<5>>, rows |-> (5 :> [ok |-> TRUE, rows |-> <<[game_id |-> 1, value |-> 3]>>]),
       details |-> d] :
        d \in SignalPools }
    \cup
    { [sel |-> <<5>>, rows |-> (5 :> r), details |-> PlainPool] :
        r \in PrimRowsInputs \cup {PrimRaises} }
    \cup
    { [sel |-> <<5, 2>>, rows |-> (5 :> r5) @@ (2 :> r2), details |-> PlainPool] :
        r5 \in PrimRowsInputs, r2 \in PrimRowsInputs \cup {PrimRaises} }
    \cup
    { [sel |-> <<5>>, rows |-> (5 :> [ok |-> TRUE, rows |-> <<>>]),
       details |-> << [id |-> 1, total_rating |-> 50] @@ rel @@ upd >>] :
        rel \in ReleaseInputs, upd \in UpdateInputs }

MainIdle ==
    /\ gi = 1
    /\ genre_name_to_id = <<>>
    /\ total = 0
    /\ featured = <<>>
    /\ popular = <<>>
    /\ genres_out = <<>>
    /\ built = {}
    /\ store = OldDoc
    /\ writes = 0
    /\ raised = "none"
    /\ catalog = <<>>
    /\ popular_log = "none"

TransformIdle ==
    /\ t_pc = "off"
    /\ t_raw = <<>>
    /\ t_out = <<>>
    /\ t_out2 = <<>>

\* the state build_popular_section is in when the details loop has ended
\* (lines 247-256 applied to each type's rows)
InitScore ==
    /\ pc = "score_in"
    /\ MainIdle
    /\ TransformIdle
    /\ score_log = <<>>
    /\ ti = 1
    /\ candidate_left = {}
    /\ \E inp \in ScoreInputs :
         /\ selected_ids = inp.sel
         /\ primitive_by_type =
              [t \in DOMAIN inp.rows |->
                 IF inp.rows[t].ok THEN primitive_dict(inp.rows[t].rows) ELSE <<>>]
         /\ max_value_by_type =
              [t \in DOMAIN inp.rows |->
                 IF inp.rows[t].ok THEN recorded_max(inp.rows[t].rows) ELSE 1]
         /\ game_details = inp.details
         /\ candidate_ids = {inp.details[i].id : i \in DOMAIN inp.details}

\* what compute_score(g) works out (lines 314-350)
ScoreEntry(g) ==
    [ g |-> g,
      prims |-> [j \in DOMAIN selected_ids |->
                   norm_primitive(primitive_by_type, max_value_by_type,
                                  selected_ids[j], g)],
      hypes |-> norm_hypes(g, game_details),
      follows |-> norm_follows(g, game_details),
      rating |-> norm_rating(g, game_details),
      release |-> release_adjustment(g),
      update |-> update_adjustment(g),
      score |-> compute_score(g, selected_ids, primitive_by_type,
                              max_value_by_type, game_details) ]

\* lines 292-354
ScoreCall ==
    /\ pc = "score_in"
    /\ score_log' = [i \in DOMAIN game_details |-> ScoreEntry(game_details[i])]
    /\ popular' = score_and_pick(selected_ids, primitive_by_type,
                                 max_value_by_type, game_details)
    /\ pc' = "score_done"
    /\ UNCHANGED <<gi, genre_name_to_id, total, featured, genres_out, built,
                   store, writes, raised, catalog, popular_log, pvars, tvars>>

NextScore == ScoreCall

SpecScore == InitScore /\ [][NextScore]_vars

(***************************************************************************)
(* Claims about compute_score, checked under SpecScore                     *)
(***************************************************************************)
Scored == pc = "score_done"

\* the normalized sub-scores of one entry of the score log
SubScores(e) ==
    {e.prims[j] : j \in DOMAIN e.prims} \cup {e.hypes, e.follows, e.rating}

InUnit(nd) == nd[2] > 0 /\ 0 <= nd[1] /\ nd[1] <= nd[2]

IsZero(nd) == nd[2] > 0 /\ nd[1] = 0

IsOne(nd) == nd[2] > 0 /\ nd[1] = nd[2]

Signals == {"hypes", "follows", "total_rating"}

SignalNorm(e, k) ==
    IF k = "hypes" THEN e.hypes ELSE IF k = "follows" THEN e.follows ELSE e.rating

\* the raw value of a popularity type for a candidate (line 320)
TypeRaw(j, e) == raw_val(primitive_by_type, selected_ids[j], e.g.id)

\* C5: for every candidate pool with non-negative raw values, every
\* normalized sub-score used by compute_score lies in [0,1] (each type's
\* primitive value over that type's recorded maximum; hype, follower count
\* and rating over the maximum of the field over the fetched details), and a
\* field that is zero for every candidate normalizes to 0 for all of them.
C5_SubScoresInUnitInterval ==
    Scored =>
      /\ \A i \in DOMAIN score_log : \A nd \in SubScores(score_log[i]) : InUnit(nd)
      /\ \A k \in Signals :
           (\A i \in DOMAIN score_log : OrZero(score_log[i].g, k) = 0)
             => \A i \in DOMAIN score_log : IsZero(SignalNorm(score_log[i], k))
      /\ \A j \in DOMAIN selected_ids :
           (\A i \in DOMAIN score_log : TypeRaw(j, score_log[i]) = 0)
             => \A i \in DOMAIN score_log : IsZero(score_log[i].prims[j])

\* a pool of two where one candidate's primitive value is strictly between
\* 0 and the recorded maximum, the other's is the maximum, and nobody has
\* hype
C5_Witness ==
    /\ Scored
    /\ Len(score_log) = 2
    /\ \E a, b \in DOMAIN score_log :
         /\ score_log[a].prims[1][1] > 0
         /\ score_log[a].prims[1][1] < score_log[a].prims[1][2]
         /\ IsOne(score_log[b].prims[1])
    /\ \A i \in DOMAIN score_log : IsZero(score_log[i].hypes)

AllEqualSignal(k) ==
    \A i, j \in DOMAIN score_log :
       OrZero(score_log[i].g, k) = OrZero(score_log[j].g, k)

AllEqualType(t) ==
    \A i, j \in DOMAIN score_log : TypeRaw(t, score_log[i]) = TypeRaw(t, score_log[j])

\* C6 as stated: a pool in which every candidate has the same raw value for
\* a signal (hype, follower count, rating, or one popularity type) yields
\* normalized value 0 for that signal for every candidate, whatever the
\* common value is.
C6_AllEqualNormalizesToZero ==
    Scored =>
      /\ \A k \in Signals :
           AllEqualSignal(k)
             => \A i \in DOMAIN score_log : IsZero(SignalNorm(score_log[i], k))
      /\ \A t \in DOMAIN selected_ids :
           AllEqualType(t)
             => \A i \in DOMAIN score_log : IsZero(score_log[i].prims[t])

\* C6 amended: when every candidate has the same raw value c for a signal,
\* the normalized value is 0 for every candidate if c = 0; if c > 0 it is 1
\* for hype, follower count and rating, and for a popularity type it is the
\* same positive value for every candidate.
C6_AllEqualNormalizesToZeroOnlyAtZero ==
    Scored =>
      /\ \A k \in Signals :
           AllEqualSignal(k) =>
             \A i \in DOMAIN score_log :
                IF OrZero(score_log[i].g, k) = 0
                THEN IsZero(SignalNorm(score_log[i], k))
                ELSE IsOne(SignalNorm(score_log[i], k))
      /\ \A t \in DOMAIN selected_ids :
           AllEqualType(t) =>
             \A i, j \in DOMAIN score_log :
                /\ score_log[i].prims[t] = score_log[j].prims[t]
                /\ InUnit(score_log[i].prims[t])
                /\ (TypeRaw(t, score_log[i]) = 0 <=> IsZero(score_log[i].prims[t]))

\* two candidates with the same positive rating, and the same positive
\* value of a popularity type
C6_Witness ==
    /\ Scored
    /\ Len(score_log) = 2
    /\ \/ /\ AllEqualSignal("total_rating")
          /\ OrZero(score_log[1].g, "total_rating") = 3
          /\ AllEqualSignal("hypes")
          /\ OrZero(score_log[1].g, "hypes") = 1
          /\ IsOne(score_log[2].rating)
       \/ /\ Len(selected_ids) = 2
          /\ AllEqualType(2)
          /\ TypeRaw(2, score_log[1]) = 1
          /\ score_log[1].prims[2] = <<1, 4>>

\* C8: for a release age of d whole days the recent-release bonus (+0.25)
\* is added exactly when d <= 180 and the age penalty (-0.25) exactly when
\* d > 1095, never both; a candidate with no release timestamp gets no
\* release adjustment; the update bonus (+0.15) is added exactly when an
\* update timestamp exists and its age is <= 45 days.
C8_RecencyAdjustments ==
    Scored =>
      \A i \in DOMAIN score_log :
         LET e == score_log[i]
             g == e.g
         IN  /\ e.release \in {25, 0, -25}
             /\ IF "first_release_date" \in DOMAIN g
                THEN LET d == days_since(g.first_release_date)
                     IN  /\ e.release = 25 <=> d <= 180
                         /\ e.release = -25 <=> d > 1095
                ELSE e.release = 0
             /\ e.update \in {15, 0}
             /\ e.update = 15 <=>
                  /\ "updated_at" \in DOMAIN g
                  /\ days_since(g.updated_at) <= 45

\* C8 away from the epoch: the same statement for candidates whose release
\* timestamp, when present, is not 0. It holds: the boundaries 180/181 and
\* 1095/1096 and the update bonus are as C8 says; only the timestamp 0, which
\* `if release_date:` takes for a missing one, departs from it.
C8_RecencyAdjustmentsAwayFromEpoch ==
    Scored =>
      \A i \in DOMAIN score_log :
         LET e == score_log[i]
             g == e.g
         IN  /\ e.release \in {25, 0, -25}
             /\ IF "first_release_date" \in DOMAIN g /\ g.first_release_date # 0
                THEN LET d == days_since(g.first_release_date)
                     IN  /\ e.release = 25 <=> d <= 180
                         /\ e.release = -25 <=> d > 1095
                ELSE e.release = 0
             /\ e.update \in {15, 0}
             /\ e.update = 15 <=>
                  /\ "updated_at" \in DOMAIN g
                  /\ days_since(g.updated_at) <= 45

(***************************************************************************)
(* Inputs of the transformer harness                                       *)
(***************************************************************************)
MaxItems == 2

MaxUrlTokens == 3

UrlTokens == {"//h/", "t_thumb", "a.jpg"}

Urls == SeqsUpTo(UrlTokens, MaxUrlTokens)

ClassItems ==
    { [isdict |-> TRUE, name |-> <<"Action">>],
      [isdict |-> TRUE, name |-> <<"Indie">>],
      [isdict |-> TRUE, name |-> <<>>],
      [isdict |-> TRUE],
      [isdict |-> FALSE] }

ClassLists == SeqsUpTo(ClassItems, MaxItems)

TBaseRaw == [id |-> 1, name |-> "G", url |-> "u", total_rating |-> 80]

\* raw records that vary the classification lists, with fixed URLs
TClassInputs ==
    { TBaseRaw @@ [k \in {"genres"} |-> g] @@ m @@
      [cover |-> [url |-> <<"//h/", "t_thumb", "a.jpg">>]] :
        g \in ClassLists,
        m \in {<<>>} \cup {[k \in {"game_modes"} |-> l] : l \in ClassLists} }

\* raw records that vary the cover and the screenshots
TUrlInputs ==
    { TBaseRaw @@ c @@ s :
        c \in {<<>>, [cover |-> <<>>]} \cup {[cover |-> [url |-> u]] : u \in Urls},
        s \in {<<>>} \cup
              {[screenshots |-> l] :
                  l \in SeqsUpTo({<<>>} \cup
                                 {[url |-> u] : u \in {<<>>, <<"//h/", "t_thumb">>,
                                                       <<"//h/", "a.jpg">>}},
                                 MaxItems)} }

\* The raw-shaped record built from a canonical record: its cover URL and its
\* screenshot URLs put back where transform_game reads them.
Rewrap(out) ==
    [k \in {"id"} |-> 1]
      @@ (IF "cover_url" \in DOMAIN out
          THEN [cover |-> [url |-> out.cover_url]] ELSE <<>>)
      @@ (IF "screenshots" \in DOMAIN out
          THEN [screenshots |->
                  [i \in DOMAIN out.screenshots |-> [url |-> out.screenshots[i]]]]
          ELSE <<>>)

InitTransform ==
    /\ pc = "off"
    /\ MainIdle
    /\ selected_ids = <<>>
    /\ ti = 1
    /\ primitive_by_type = <<>>
    /\ max_value_by_type = <<>>
    /\ candidate_ids = {}
    /\ candidate_left = {}
    /\ game_details = <<>>
    /\ score_log = <<>>
    /\ t_pc = "in"
    /\ t_raw \in TClassInputs \cup TUrlInputs
    /\ t_out = <<>>
    /\ t_out2 = <<>>

TransformOnce ==
    /\ t_pc = "in"
    /\ t_out' = transform_game(t_raw)
    /\ t_pc' = "once"
    /\ UNCHANGED <<mvars, pvars, score_log, t_raw, t_out2>>

TransformAgain ==
    /\ t_pc = "once"
    /\ t_out2' = transform_game(Rewrap(t_out))
    /\ t_pc' = "twice"
    /\ UNCHANGED <<mvars, pvars, score_log, t_raw, t_out>>

NextTransform == TransformOnce \/ TransformAgain

SpecTransform == InitTransform /\ [][NextTransform]_vars

(***************************************************************************)
(* Claims about transform_game, checked under SpecTransform                *)
(***************************************************************************)
\* the names of the well-formed entries of a classification list
WellFormedNames(items) ==
    LET kept == SelectSeq(items, LAMBDA it : it.isdict /\ TruthyKey(it, "name"))
    IN  [i \in DOMAIN kept |-> kept[i].name]

WithoutClassFields(raw_game) ==
    [k \in DOMAIN raw_game \ ClassFields |-> raw_game[k]]

\* C9: a malformed entry inside a classification list is skipped
\* individually: the names of all well-formed entries of that same list are
\* still present in the canonical record, and the other fields of the record
\* are unaffected.
C9_MalformedEntriesSkippedIndividually ==
    t_pc # "in" =>
      /\ \A f \in ClassFields \cap DOMAIN t_raw :
           /\ f \in DOMAIN t_out
           /\ t_out[f] = WellFormedNames(t_raw[f])
      /\ \A k \in DOMAIN t_out \ ClassFields :
           t_out[k] = transform_game(WithoutClassFields(t_raw))[k]

CoverUrl(out) == IF "cover_url" \in DOMAIN out THEN Some(out.cover_url) ELSE None

ScreenshotUrls(out) == IF "screenshots" \in DOMAIN out THEN out.screenshots ELSE <<>>

\* C10: transform_game is idempotent on URLs: re-wrapping the cover URL and
\* screenshot URLs of its output as a raw-shaped record and applying it
\* again yields the same cover and screenshot URLs as the first application.
C10_IdempotentOnUrls ==
    t_pc = "twice" =>
      /\ CoverUrl(t_out2) = CoverUrl(t_out)
      /\ ScreenshotUrls(t_out2) = ScreenshotUrls(t_out)

====
